---- MODULE Spec2Model ----
(***************************************************************************)
(* A model of dns_override.c: the LD_PRELOAD library that loads a DNS      *)
(* configuration once, installs its servers into the resolver state _res   *)
(* around every gethostbyname/getaddrinfo call, and post-processes the     *)
(* address chain (drop AAAA, DNS64 synthesis, drop A).                     *)
(*                                                                         *)
(* C strings are sequences of one-character strings, so that the parsing   *)
(* and formatting code can be modelled character by character.             *)
(***************************************************************************)
EXTENDS Integers, Sequences, FiniteSets, TLC

(***************************************************************************)
(* Program constants                                                       *)
(***************************************************************************)
MAX_DNS_SERVERS == 8
DEFAULT_DNS_PORT == 53
\* sizeof(server_addr), sizeof(config.dns_servers[i]), sizeof(prefix)
ADDR_BUF == 46
\* INET6_ADDRSTRLEN, the size of ipv6_str handed to snprintf
INET6_ADDRSTRLEN == 46
AF_UNSPEC == 0
AF_INET == 2
AF_INET6 == 10
\* <resolv.h>: the nameserver slots of _res, per family
MAXNS == 3
EAI_MEMORY == -10
EAI_NONAME == -2
EAI_AGAIN == -3
\* sizeof(struct sockaddr_in), sizeof(struct sockaddr_in6)
SOCKADDR_IN_LEN == 16
SOCKADDR_IN6_LEN == 28
SOCK_STREAM == 1
SOCK_DGRAM == 2
IPPROTO_TCP == 6
IPPROTO_UDP == 17
DEFAULT_TIMEOUT_MS == 5000
RES_RETRY == 2

(***************************************************************************)
(* C string helpers                                                        *)
(***************************************************************************)
Range(s) == {s[i] : i \in 1..Len(s)}

Digits == <<"0", "1", "2", "3", "4", "5", "6", "7", "8", "9">>
HexLower == <<"0", "1", "2", "3", "4", "5", "6", "7", "8", "9",
              "a", "b", "c", "d", "e", "f">>
HexUpper == <<"0", "1", "2", "3", "4", "5", "6", "7", "8", "9",
              "A", "B", "C", "D", "E", "F">>

IsDigit(c) == c \in Range(Digits)
IsXDigit(c) == c \in Range(HexLower) \cup Range(HexUpper)
DigitVal(c) == (CHOOSE i \in 1..10 : Digits[i] = c) - 1
HexVal(c) == (CHOOSE i \in 1..16 : HexLower[i] = c \/ HexUpper[i] = c) - 1

\* the first n characters of s (strncpy(dst, s, n); dst[n] = 0)
Take(s, n) == IF Len(s) <= n THEN s ELSE SubSeq(s, 1, n)
\* s from its i-th character on (the C pointer s + (i - 1))
Drop(s, i) == IF i > Len(s) THEN <<>> ELSE SubSeq(s, i, Len(s))

\* strchr: the index of the first c in s, 0 when there is none
StrChr(s, c) ==
    IF \E i \in 1..Len(s) : s[i] = c
    THEN CHOOSE i \in 1..Len(s) : s[i] = c /\ \A j \in 1..(i - 1) : s[j] # c
    ELSE 0

\* strrchr: the index of the last c in s, 0 when there is none
StrRChr(s, c) ==
    IF \E i \in 1..Len(s) : s[i] = c
    THEN CHOOSE i \in 1..Len(s) : s[i] = c /\ \A j \in (i + 1)..Len(s) : s[j] # c
    ELSE 0

\* strstr(s, "::"): the index of the first "::" in s, 0 when there is none
StrStrColons(s) ==
    LET hits == {i \in 1..(Len(s) - 1) : s[i] = ":" /\ s[i + 1] = ":"}
    IN IF hits = {} THEN 0 ELSE CHOOSE i \in hits : \A j \in hits : i <= j

CountChar(s, c) == Cardinality({i \in 1..Len(s) : s[i] = c})

\* the parts of s between the occurrences of c
Split(s, c) ==
    LET RECURSIVE go(_, _, _)
        go(i, cur, acc) ==
            IF i > Len(s) THEN Append(acc, cur)
            ELSE IF s[i] = c THEN go(i + 1, <<>>, Append(acc, cur))
            ELSE go(i + 1, Append(cur, s[i]), acc)
    IN go(1, <<>>, <<>>)

\* the value of a string of decimal digits
RECURSIVE DecValue(_)
DecValue(s) ==
    IF s = <<>> THEN 0
    ELSE 10 * DecValue(SubSeq(s, 1, Len(s) - 1)) + DigitVal(s[Len(s)])

\* the value of a string of hexadecimal digits
RECURSIVE HexValue(_)
HexValue(s) ==
    IF s = <<>> THEN 0
    ELSE 16 * HexValue(SubSeq(s, 1, Len(s) - 1)) + HexVal(s[Len(s)])

\* the longest prefix of s that is all decimal digits
DigitPrefix(s) ==
    LET stop == {i \in 1..Len(s) : ~IsDigit(s[i])}
    IN IF stop = {} THEN s
       ELSE SubSeq(s, 1, (CHOOSE i \in stop : \A j \in stop : i <= j) - 1)

\* atoi: an optional sign, then the leading decimal digits; 0 when there are
\* none.  (A value outside int is undefined behaviour; the model's texts hold
\* at most nine digits.)
atoi(s) ==
    IF s = <<>> THEN 0
    ELSE IF s[1] = "-" THEN 0 - DecValue(DigitPrefix(Drop(s, 2)))
    ELSE IF s[1] = "+" THEN DecValue(DigitPrefix(Drop(s, 2)))
    ELSE DecValue(DigitPrefix(s))

\* printf("%x"): lowercase hexadecimal without padding
RECURSIVE ToHex(_)
ToHex(n) ==
    IF n < 16 THEN <<HexLower[n + 1]>>
    ELSE ToHex(n \div 16) \o <<HexLower[(n % 16) + 1]>>

\* printf("%d") of a non-negative number
RECURSIVE ToDec(_)
ToDec(n) ==
    IF n < 10 THEN <<Digits[n + 1]>>
    ELSE ToDec(n \div 10) \o <<Digits[(n % 10) + 1]>>

(***************************************************************************)
(* inet_pton / inet_ntop as the C library computes them                    *)
(***************************************************************************)
\* one decimal octet of a dotted quad: digits only, no leading zero, <= 255
IsOctet(p) ==
    /\ Len(p) \in 1..3
    /\ \A i \in 1..Len(p) : IsDigit(p[i])
    /\ (Len(p) > 1 => p[1] # "0")
    /\ DecValue(p) <= 255

\* inet_pton(AF_INET, s, ..) == 1
inet_pton4_ok(s) ==
    LET parts == Split(s, ".")
    IN Len(parts) = 4 /\ \A i \in 1..4 : IsOctet(parts[i])

\* the four bytes inet_pton(AF_INET, s, ..) stores, in network order
inet_pton4(s) ==
    LET parts == Split(s, ".")
    IN [i \in 1..4 |-> DecValue(parts[i])]

\* inet_ntop(AF_INET, ..): dotted decimal
inet_ntop4(b) ==
    ToDec(b[1]) \o <<".">> \o ToDec(b[2]) \o <<".">> \o ToDec(b[3]) \o <<".">> \o ToDec(b[4])

\* a group of one to four hexadecimal digits
IsHexGroup(p) == Len(p) \in 1..4 /\ \A i \in 1..Len(p) : IsXDigit(p[i])

\* the colon-separated parts of an IPv6 text, with the empty part that a
\* leading or trailing "::" adds beside the gap removed
V6Parts(s) ==
    LET raw == Split(s, ":")
        n == Len(raw)
        lead == Len(s) >= 2 /\ s[1] = ":" /\ s[2] = ":"
        trail == Len(s) >= 2 /\ s[Len(s)] = ":" /\ s[Len(s) - 1] = ":"
        a == IF lead THEN 2 ELSE 1
        b == IF trail THEN n - 1 ELSE n
    IN SubSeq(raw, a, b)

\* the 16-bit groups a list of parts stands for (a dotted quad, which may
\* only come last, is two groups)
RECURSIVE V6Groups(_)
V6Groups(parts) ==
    IF parts = <<>> THEN <<>>
    ELSE IF Len(parts) = 1 /\ inet_pton4_ok(parts[1])
         THEN LET b == inet_pton4(parts[1])
              IN <<b[1] * 256 + b[2], b[3] * 256 + b[4]>>
         ELSE <<HexValue(parts[1])>> \o V6Groups(Tail(parts))

\* inet_pton(AF_INET6, s, ..) == 1
inet_pton6_ok(s) ==
    LET parts == V6Parts(s)
        n == Len(parts)
        gaps == {i \in 1..n : parts[i] = <<>>}
        groupsOk == \A i \in 1..n :
                        \/ parts[i] = <<>>
                        \/ IsHexGroup(parts[i])
                        \/ (i = n /\ inet_pton4_ok(parts[i]))
        count == (n - Cardinality(gaps))
                 + (IF n > 0 /\ inet_pton4_ok(parts[n]) THEN 1 ELSE 0)
    IN /\ s # <<>>
       /\ s # <<":">>
       /\ (s[1] = ":" => Len(s) >= 2 /\ s[2] = ":")
       /\ (s[Len(s)] = ":" => Len(s) >= 2 /\ s[Len(s) - 1] = ":")
       /\ groupsOk
       /\ Cardinality(gaps) <= 1
       /\ (gaps = {} => count = 8)
       /\ (gaps # {} => count <= 7)

\* the eight 16-bit groups inet_pton(AF_INET6, s, ..) stores
inet_pton6(s) ==
    LET parts == V6Parts(s)
        n == Len(parts)
        gaps == {i \in 1..n : parts[i] = <<>>}
        g == IF gaps = {} THEN n + 1 ELSE CHOOSE i \in gaps : TRUE
        before == V6Groups(SubSeq(parts, 1, g - 1))
        after == V6Groups(SubSeq(parts, g + 1, n))
        zeros == [i \in 1..(8 - Len(before) - Len(after)) |-> 0]
    IN before \o zeros \o after

(***************************************************************************)
(* Texts of the source                                                     *)
(***************************************************************************)
K_dns_server == <<"d", "n", "s", "_", "s", "e", "r", "v", "e", "r">>
K_timeout == <<"t", "i", "m", "e", "o", "u", "t">>
K_use_tcp == <<"u", "s", "e", "_", "t", "c", "p">>
K_debug == <<"d", "e", "b", "u", "g">>
K_enable_dns64 == <<"e", "n", "a", "b", "l", "e", "_", "d", "n", "s", "6", "4">>
K_dns64_prefix == <<"d", "n", "s", "6", "4", "_", "p", "r", "e", "f", "i", "x">>
K_filter_aaaa == <<"f", "i", "l", "t", "e", "r", "_", "a", "a", "a", "a">>
K_filter_a == <<"f", "i", "l", "t", "e", "r", "_", "a">>
S_true == <<"t", "r", "u", "e">>
S_1 == <<"1">>
DEFAULT_PREFIX == <<"6", "4", ":", "f", "f", "9", "b", ":", ":">>
DEFAULT_SERVER_0 == <<"8", ".", "8", ".", "8", ".", "8">>
DEFAULT_SERVER_1 == <<"1", ".", "1", ".", "1", ".", "1">>

(***************************************************************************)
(* struct dns_config and load_dns_config                                   *)
(***************************************************************************)
ServerSlots == 0..(MAX_DNS_SERVERS - 1)

\* static struct dns_config config = {0}
ZeroConfig ==
    [dns_servers |-> [i \in ServerSlots |-> <<>>],
     dns_ports |-> [i \in ServerSlots |-> 0],
     dns_families |-> [i \in ServerSlots |-> 0],
     server_count |-> 0,
     timeout_ms |-> 0,
     use_tcp |-> 0,
     debug |-> 0,
     enable_dns64 |-> 0,
     dns64_prefix |-> <<>>,
     filter_aaaa |-> 0,
     filter_a |-> 0]

\* "Set defaults"
SetDefaults(cfg) ==
    [cfg EXCEPT !.server_count = 0,
                !.timeout_ms = DEFAULT_TIMEOUT_MS,
                !.use_tcp = 0,
                !.debug = 0,
                !.enable_dns64 = 0,
                !.filter_aaaa = 0,
                !.filter_a = 0,
                !.dns64_prefix = Take(DEFAULT_PREFIX, ADDR_BUF - 1)]

\* "Use default DNS servers": the addresses and ports of slots 0 and 1 are
\* written, dns_families is not
UseDefaultServers(cfg) ==
    [cfg EXCEPT !.dns_servers[0] = Take(DEFAULT_SERVER_0, ADDR_BUF - 1),
                !.dns_ports[0] = DEFAULT_DNS_PORT,
                !.dns_servers[1] = Take(DEFAULT_SERVER_1, ADDR_BUF - 1),
                !.dns_ports[1] = DEFAULT_DNS_PORT,
                !.server_count = 2]

\* the value of a dns_server line taken apart: skip is the code's `continue`
SkipServer == [skip |-> TRUE, addr |-> <<>>, port |-> DEFAULT_DNS_PORT, family |-> AF_INET]

ExtractServer(value) ==
    IF value[1] = "["
    THEN LET bracket_end == StrChr(value, "]")
             addr_len == bracket_end - 2
         IN IF bracket_end = 0 THEN SkipServer
            ELSE IF addr_len < ADDR_BUF
            THEN [skip |-> FALSE,
                  addr |-> SubSeq(value, 2, bracket_end - 1),
                  port |-> IF bracket_end < Len(value) /\ value[bracket_end + 1] = ":"
                           THEN atoi(Drop(value, bracket_end + 2))
                           ELSE DEFAULT_DNS_PORT,
                  family |-> AF_INET6]
            ELSE SkipServer
    ELSE LET port_str == StrRChr(value, ":")
             colon_count == CountChar(value, ":")
             addr_len == port_str - 1
         IN IF colon_count > 1
            THEN [skip |-> FALSE, addr |-> Take(value, ADDR_BUF - 1),
                  port |-> DEFAULT_DNS_PORT, family |-> AF_INET6]
            ELSE IF port_str # 0
            THEN IF addr_len < ADDR_BUF
                 THEN [skip |-> FALSE, addr |-> SubSeq(value, 1, addr_len),
                       port |-> atoi(Drop(value, port_str + 1)), family |-> AF_INET]
                 ELSE SkipServer
            ELSE [skip |-> FALSE, addr |-> Take(value, ADDR_BUF - 1),
                  port |-> DEFAULT_DNS_PORT, family |-> AF_INET]

\* "Validate the address format"
ValidServer(e) ==
    IF e.family = AF_INET THEN inet_pton4_ok(e.addr) ELSE inet_pton6_ok(e.addr)

\* a dns_server branch that stores the address without validating it
AddServer_NoValidation(cfg, value) ==
    LET e == ExtractServer(value)
        n == cfg.server_count
    IN IF e.skip THEN cfg
       ELSE [cfg EXCEPT !.dns_servers[n] = Take(e.addr, ADDR_BUF - 1),
                        !.dns_ports[n] = e.port,
                        !.dns_families[n] = e.family,
                        !.server_count = n + 1]

\* the body of the dns_server branch
AddServer(cfg, value) ==
    LET e == ExtractServer(value)
        n == cfg.server_count
    IN IF e.skip \/ ~ValidServer(e) THEN cfg
       ELSE [cfg EXCEPT !.dns_servers[n] = Take(e.addr, ADDR_BUF - 1),
                        !.dns_ports[n] = e.port,
                        !.dns_families[n] = e.family,
                        !.server_count = n + 1]

\* strcmp(value, "true") == 0 || strcmp(value, "1") == 0
Flag(value) == IF value = S_true \/ value = S_1 THEN 1 ELSE 0

\* A line of the file is the sequence of its whitespace-separated fields (an
\* empty sequence is a blank line); a line whose first character is '#' is a
\* comment.  One pass of the fgets loop:
IsComment(line) == line = <<>> \/ line[1][1] = "#"

ProcessLine(cfg, line) ==
    IF IsComment(line) \/ Len(line) < 2 THEN cfg
    ELSE LET key == line[1]
             value == line[2]
         IN IF key = K_dns_server /\ cfg.server_count < MAX_DNS_SERVERS
            THEN AddServer(cfg, value)
            ELSE IF key = K_timeout THEN [cfg EXCEPT !.timeout_ms = atoi(value)]
            ELSE IF key = K_use_tcp THEN [cfg EXCEPT !.use_tcp = Flag(value)]
            ELSE IF key = K_debug THEN [cfg EXCEPT !.debug = Flag(value)]
            ELSE IF key = K_enable_dns64 THEN [cfg EXCEPT !.enable_dns64 = Flag(value)]
            ELSE IF key = K_dns64_prefix
                 THEN [cfg EXCEPT !.dns64_prefix = Take(value, ADDR_BUF - 1)]
            ELSE IF key = K_filter_aaaa THEN [cfg EXCEPT !.filter_aaaa = Flag(value)]
            ELSE IF key = K_filter_a THEN [cfg EXCEPT !.filter_a = Flag(value)]
            ELSE cfg

\* while (fgets(line, sizeof(line), file)) ...
RECURSIVE ReadLines(_, _)
ReadLines(cfg, lines) ==
    IF lines = <<>> THEN cfg
    ELSE ReadLines(ProcessLine(cfg, Head(lines)), Tail(lines))

\* the config load_dns_config builds when config_loaded is 0; f is the config
\* source: [exists |-> fopen succeeded, lines |-> its lines]
LoadedConfig(cfg, f) ==
    IF ~f.exists THEN UseDefaultServers(SetDefaults(cfg))
    ELSE LET c == ReadLines(SetDefaults(cfg), f.lines)
         IN IF c.server_count = 0 THEN UseDefaultServers(c) ELSE c

\* Config.servers: the entries of the first server_count slots
Servers(cfg) ==
    [i \in 1..cfg.server_count |->
        [addr |-> cfg.dns_servers[i - 1],
         port |-> cfg.dns_ports[i - 1],
         family |-> cfg.dns_families[i - 1]]]

(***************************************************************************)
(* The resolver state _res and the IPv6 server descriptors                 *)
(***************************************************************************)
NsSlots == 0..(MAXNS - 1)
NULL == 0
ZeroAddr4 == <<0, 0, 0, 0>>
ZeroSlot == [sin_family |-> AF_UNSPEC, sin_port |-> 0, sin_addr |-> ZeroAddr4]

\* htons(int): the low 16 bits of the port
htons(p) == p % 65536

\* C's integer division, which truncates toward zero
CDiv(a, b) == IF a >= 0 THEN a \div b ELSE 0 - ((0 - a) \div b)

\* a _res no resolver call has initialised yet
ZeroRes ==
    [nscount |-> 0,
     nsaddr_list |-> [i \in NsSlots |-> ZeroSlot],
     nscount6 |-> 0,
     nsaddrs |-> [i \in NsSlots |-> NULL],
     retrans |-> 0,
     retry |-> 0]

\* what res_init() builds from the system's resolv.conf: two nameservers
SystemRes ==
    [nscount |-> 2,
     nsaddr_list |-> [i \in NsSlots |->
        IF i = 0 THEN [sin_family |-> AF_INET, sin_port |-> 53, sin_addr |-> <<127, 0, 0, 53>>]
        ELSE IF i = 1 THEN [sin_family |-> AF_INET, sin_port |-> 53, sin_addr |-> <<192, 168, 0, 1>>]
        ELSE ZeroSlot],
     nscount6 |-> 0,
     nsaddrs |-> [i \in NsSlots |-> NULL],
     retrans |-> 5,
     retry |-> 2]

\* a _res the application has set up itself before calling
AppRes ==
    [nscount |-> 1,
     nsaddr_list |-> [i \in NsSlots |->
        IF i = 0 THEN [sin_family |-> AF_INET, sin_port |-> 5300, sin_addr |-> <<10, 0, 0, 1>>]
        ELSE ZeroSlot],
     nscount6 |-> 0,
     nsaddrs |-> [i \in NsSlots |-> NULL],
     retrans |-> 1,
     retry |-> 4]

AmbientStates == {ZeroRes, AppRes}

\* res_init(); _res.nscount = 0; _res._u._ext.nscount6 = 0;
ResInit == [SystemRes EXCEPT !.nscount = 0, !.nscount6 = 0]

\* "Set timeout"
SetTimeout(r, cfg) ==
    [r EXCEPT !.retrans = CDiv(cfg.timeout_ms, 1000), !.retry = RES_RETRY]

\* the config slots whose family is AF_INET6: the calloc calls the install
\* loop of getaddrinfo can make
V6Slots(cfg) == {i \in ServerSlots : i < cfg.server_count /\ cfg.dns_families[i] = AF_INET6}

\* getaddrinfo's install loop.  heap is the sequence of descriptors calloc has
\* returned so far (a descriptor's pointer is its index), t the caller, and
\* noMem the config slots whose calloc returns NULL.  Yields the new _res and
\* heap with the two indexes.
InstallServers(cfg, r0, heap0, t, noMem) ==
    LET RECURSIVE go(_, _)
        go(i, st) ==
            IF ~(i < cfg.server_count /\ (st.ipv4_index < MAXNS \/ st.ipv6_index < MAXNS))
            THEN st
            ELSE IF cfg.dns_families[i] = AF_INET /\ st.ipv4_index < MAXNS
            THEN LET ok == inet_pton4_ok(cfg.dns_servers[i])
                     ns == [sin_family |-> AF_INET,
                            sin_port |-> htons(cfg.dns_ports[i]),
                            sin_addr |-> IF ok THEN inet_pton4(cfg.dns_servers[i])
                                         ELSE ZeroAddr4]
                     r1 == [st.res EXCEPT !.nsaddr_list[st.ipv4_index] = ns]
                 IN IF ok
                    THEN go(i + 1, [st EXCEPT !.res = [r1 EXCEPT !.nscount = @ + 1],
                                              !.ipv4_index = @ + 1])
                    ELSE go(i + 1, [st EXCEPT !.res = r1])
            ELSE IF cfg.dns_families[i] = AF_INET6 /\ st.ipv6_index < MAXNS
            THEN IF i \in noMem THEN go(i + 1, st)
                 ELSE LET ok == inet_pton6_ok(cfg.dns_servers[i])
                          ns6 == Len(st.heap) + 1
                          d == [owner |-> t,
                                sin6_family |-> AF_INET6,
                                sin6_port |-> htons(cfg.dns_ports[i]),
                                sin6_addr |-> IF ok THEN inet_pton6(cfg.dns_servers[i])
                                              ELSE [k \in 1..8 |-> 0],
                                frees |-> IF ok THEN 0 ELSE 1]
                          r1 == [st.res EXCEPT !.nsaddrs[st.ipv6_index] = ns6,
                                               !.nscount6 = @ + 1]
                          r2 == IF r1.nscount < MAXNS
                                THEN [r1 EXCEPT !.nsaddr_list[r1.nscount] = ZeroSlot,
                                                !.nscount = @ + 1]
                                ELSE r1
                      IN IF ok
                         THEN go(i + 1, [st EXCEPT !.res = r2,
                                                   !.heap = Append(@, d),
                                                   !.ipv6_index = @ + 1])
                         ELSE go(i + 1, [st EXCEPT !.heap = Append(@, d)])
            ELSE go(i + 1, st)
    IN go(0, [res |-> r0, heap |-> heap0, ipv4_index |-> 0, ipv6_index |-> 0])

\* gethostbyname's install loop: every server is written as an AF_INET
\* nameserver into slot i, and counted when inet_pton(AF_INET, ..) accepts it
InstallServers4(cfg, r0) ==
    LET RECURSIVE go(_, _)
        go(i, r) ==
            IF ~(i < cfg.server_count /\ i < MAXNS) THEN r
            ELSE LET ok == inet_pton4_ok(cfg.dns_servers[i])
                     ns == [sin_family |-> AF_INET,
                            sin_port |-> htons(cfg.dns_ports[i]),
                            sin_addr |-> IF ok THEN inet_pton4(cfg.dns_servers[i])
                                         ELSE ZeroAddr4]
                     r1 == [r EXCEPT !.nsaddr_list[i] = ns]
                 IN go(i + 1, IF ok THEN [r1 EXCEPT !.nscount = @ + 1] ELSE r1)
    IN go(0, r0)

\* "Clean up allocated IPv6 nameserver memory": free every non-NULL
\* _res._u._ext.nsaddrs[i] below nscount6, and set it to NULL
FreeDescriptors(r, heap) ==
    LET live == {i \in NsSlots : i < r.nscount6 /\ r.nsaddrs[i] # NULL}
        RECURSIVE freeAll(_, _)
        freeAll(is, h) ==
            IF is = {} THEN h
            ELSE LET i == CHOOSE x \in is : TRUE
                 IN freeAll(is \ {i}, [h EXCEPT ![r.nsaddrs[i]].frees = @ + 1])
    IN [res |-> [r EXCEPT !.nsaddrs = [i \in NsSlots |-> IF i \in live THEN NULL ELSE @[i]]],
        heap |-> freeAll(live, heap)]

\* a restore that leaves the installed configuration in place
RestoredState_Stale(saved, current) == current

\* memcpy(&_res, &original_state, sizeof(_res))
RestoredState(saved, current) == saved

(***************************************************************************)
(* Address chains: struct addrinfo lists as sequences of records; the      *)
(* NULL chain is the empty sequence                                        *)
(***************************************************************************)
NoName == "(null)"

\* DNS64 synthesis: the text of the synthetic address, and 0 when ipv4_str
\* is no IPv4 address.  prefix is config.dns64_prefix.
synthesize_dns64_address(ipv4_str, dns64_prefix) ==
    IF ~inet_pton4_ok(ipv4_str) THEN [ret |-> 0, ipv6_str |-> <<>>]
    ELSE LET ipv4_addr == inet_pton4(ipv4_str)
             copied == Take(dns64_prefix, ADDR_BUF - 1)
             double_colon == StrStrColons(copied)
             prefix == IF double_colon # 0 THEN SubSeq(copied, 1, double_colon - 1)
                       ELSE copied
             high == ipv4_addr[1] * 256 + ipv4_addr[2]
             low == ipv4_addr[3] * 256 + ipv4_addr[4]
             text == prefix \o <<":", ":">> \o ToHex(high) \o <<":">> \o ToHex(low)
         IN [ret |-> 1, ipv6_str |-> Take(text, INET6_ADDRSTRLEN - 1)]

\* the record add_dns64_addresses builds for an IPv4 record `current`
SynthRecord(current, ipv6_str) ==
    [ai_flags |-> 0,
     ai_family |-> AF_INET6,
     ai_socktype |-> current.ai_socktype,
     ai_protocol |-> current.ai_protocol,
     ai_addrlen |-> SOCKADDR_IN6_LEN,
     ai_addr |-> [port |-> current.ai_addr.port, addr |-> inet_pton6(ipv6_str)],
     ai_canonname |-> NoName]

\* add_dns64_addresses(result, ipv4_results) with ipv4_results == *result, as
\* getaddrinfo calls it: the walk goes down the chain it is appending to.
\* noMem is the set of positions at which one of the two mallocs fails.
add_dns64_addresses(result, cfg, noMem) ==
    IF cfg.enable_dns64 = 0 \/ result = <<>> THEN [ret |-> 0, chain |-> result]
    ELSE LET RECURSIVE walk(_, _, _)
             walk(i, chain, added_count) ==
                 IF i > Len(chain) THEN [ret |-> added_count, chain |-> chain]
                 ELSE IF chain[i].ai_family # AF_INET THEN walk(i + 1, chain, added_count)
                 ELSE LET s == synthesize_dns64_address(inet_ntop4(chain[i].ai_addr.addr),
                                                        cfg.dns64_prefix)
                      IN IF s.ret = 1 /\ i \notin noMem /\ inet_pton6_ok(s.ipv6_str)
                         THEN walk(i + 1, Append(chain, SynthRecord(chain[i], s.ipv6_str)),
                                   added_count + 1)
                         ELSE walk(i + 1, chain, added_count)
         IN walk(1, result, 0)

\* the allocations a filter makes for one record it keeps: the addrinfo, the
\* sockaddr, and the canonical name when there is one
AllocsFor(rec) == IF rec.ai_canonname = NoName THEN 2 ELSE 3

\* a copy that drops the canonical name
CopyRecord_NoCanonname(current) == [current EXCEPT !.ai_canonname = NoName]

\* the copy a filter makes of a record it keeps: memcpy of the addrinfo, a
\* copy of the sockaddr, strdup of the canonical name
CopyRecord(current) ==
    [ai_flags |-> current.ai_flags,
     ai_family |-> current.ai_family,
     ai_socktype |-> current.ai_socktype,
     ai_protocol |-> current.ai_protocol,
     ai_addrlen |-> current.ai_addrlen,
     ai_addr |-> [port |-> current.ai_addr.port, addr |-> current.ai_addr.addr],
     ai_canonname |-> current.ai_canonname]

\* a copy loop that counts every record it visits as removed
CopyWithout_CountsAll(original_result, family, failAt) ==
    LET RECURSIVE loop(_, _, _, _)
        loop(i, new_result, allocs, removed_count) ==
            IF i > Len(original_result)
            THEN [ret |-> removed_count, chain |-> new_result,
                  allocated |-> allocs, released |-> 0, freed_input |-> TRUE]
            ELSE LET current == original_result[i]
                 IN IF current.ai_family = family
                    THEN loop(i + 1, new_result, allocs, removed_count + 1)
                    ELSE IF failAt > allocs /\ failAt <= allocs + AllocsFor(current)
                    THEN [ret |-> -1, chain |-> original_result,
                          allocated |-> failAt - 1,
                          released |-> (failAt - 1) - Len(new_result),
                          freed_input |-> FALSE]
                    ELSE loop(i + 1, Append(new_result, CopyRecord(current)),
                              allocs + AllocsFor(current), removed_count + 1)
    IN loop(1, <<>>, 0, 0)

\* the loop shared by filter_aaaa_records and filter_a_records: copy every
\* record whose family is not `family` into a new chain.  failAt is the
\* number of the allocation that fails (0: none fails).  On a failure the new
\* chain is passed to freeaddrinfo, which releases the addrinfo and the
\* canonical name of each record but not the separately allocated sockaddr,
\* and the caller's chain is left as it is.
CopyWithout(original_result, family, failAt) ==
    LET RECURSIVE loop(_, _, _, _)
        loop(i, new_result, allocs, removed_count) ==
            IF i > Len(original_result)
            THEN [ret |-> removed_count, chain |-> new_result,
                  allocated |-> allocs, released |-> 0, freed_input |-> TRUE]
            ELSE LET current == original_result[i]
                 IN IF current.ai_family = family
                    THEN loop(i + 1, new_result, allocs, removed_count + 1)
                    ELSE IF failAt > allocs /\ failAt <= allocs + AllocsFor(current)
                    THEN [ret |-> -1, chain |-> original_result,
                          allocated |-> failAt - 1,
                          released |-> (failAt - 1) - Len(new_result),
                          freed_input |-> FALSE]
                    ELSE loop(i + 1, Append(new_result, CopyRecord(current)),
                              allocs + AllocsFor(current), removed_count)
    IN loop(1, <<>>, 0, 0)

\* the allocations CopyWithout makes when none fails
AllocCount(chain, family) ==
    LET RECURSIVE sum(_)
        sum(i) == IF i > Len(chain) THEN 0
                  ELSE (IF chain[i].ai_family = family THEN 0 ELSE AllocsFor(chain[i]))
                       + sum(i + 1)
    IN sum(1)

Untouched(result) ==
    [ret |-> 0, chain |-> result, allocated |-> 0, released |-> 0, freed_input |-> FALSE]

\* "Filter out AAAA (IPv6) records from DNS results"
filter_aaaa_records(result, cfg, failAt) ==
    IF cfg.filter_aaaa = 0 \/ result = <<>> THEN Untouched(result)
    ELSE CopyWithout(result, AF_INET6, failAt)

\* "Filter out A (IPv4) records from DNS results"
filter_a_records(result, cfg, failAt) ==
    IF cfg.filter_a = 0 \/ result = <<>> THEN Untouched(result)
    ELSE CopyWithout(result, AF_INET, failAt)

(***************************************************************************)
(* Texts used as inputs                                                    *)
(***************************************************************************)
T_v4 == <<"9", ".", "9", ".", "9", ".", "9">>
T_v4_port == <<"9", ".", "9", ".", "9", ".", "9", ":", "5", "3", "5", "3">>
T_v4b == <<"1", "9", "2", ".", "0", ".", "2", ".", "7">>
T_v6 == <<"2", "0", "0", "1", ":", "d", "b", "8", ":", ":", "1">>
T_v6_bracket_port == <<"[", "2", "0", "0", "1", ":", "d", "b", "8", ":", ":", "1", "]", ":", "5", "3", "5", "3">>
T_v6_bracket == <<"[", "2", "0", "0", "1", ":", "d", "b", "8", ":", ":", "2", "]">>
T_v6b == <<"2", "0", "0", "1", ":", "d", "b", "8", ":", ":", "3">>
T_v6c == <<"f", "d", "0", "0", ":", ":", "4">>
T_v6d == <<"f", "d", "0", "0", ":", ":", "5">>
T_ambiguous == <<"2", "0", "0", "1", ":", "d", "b", "8", ":", ":", "1", ":", "5", "3", "5", "3">>
T_unclosed == <<"[", "2", "0", "0", "1", ":", "d", "b", "8", ":", ":", "1">>
T_bad_v4 == <<"9", "9", "9", ".", "1", ".", "1", ".", "1">>
T_empty_port == <<"1", ".", "1", ".", "1", ".", "1", ":">>
T_bracket_junk == <<"[", ":", ":", "1", "]", "x">>
T_one_colon_v6 == <<"f", "e", "8", "0", ":", "1">>
T_v4_big_port == <<"1", "0", ".", "0", ".", "0", ".", "1", ":", "7", "0", "0", "0", "0">>
T_v4_neg_port == <<"1", "0", ".", "0", ".", "0", ".", "2", ":", "-", "1">>
T_bracket_v4 == <<"[", "1", "0", ".", "0", ".", "0", ".", "3", "]", ":", "5", "3">>
T_long_v6 == <<"f", "f", "f", "f", ":", "f", "f", "f", "f", ":", "f", "f", "f", "f", ":", "f", "f", "f", "f", ":", "f", "f", "f", "f", ":", "f", "f", "f", "f", ":", "2", "5", "5", ".", "2", "5", "5", ".", "2", "5", "5", ".", "2", "5", "5", "x">>
T_full_v6 == <<"f", "f", "f", "f", ":", "f", "f", "f", "f", ":", "f", "f", "f", "f", ":", "f", "f", "f", "f", ":", "f", "f", "f", "f", ":", "f", "f", "f", "f", ":", "2", "5", "5", ".", "2", "5", "5", ".", "2", "5", "5", ".", "2", "5", "5">>
T_250 == <<"2", "5", "0">>
T_false == <<"f", "a", "l", "s", "e">>
K_nameserver == <<"n", "a", "m", "e", "s", "e", "r", "v", "e", "r">>
T_comment == <<"#", "d", "n", "s", "_", "s", "e", "r", "v", "e", "r">>
P_custom == <<"2", "0", "0", "1", ":", "d", "b", "8", ":", "6", "4", ":", ":">>
P_slash96 == <<"6", "4", ":", "f", "f", "9", "b", ":", ":", "/", "9", "6">>
P_two_gaps == <<"1", ":", ":", "2", ":", ":">>
P_no_colons == <<"f", "d", "0", "0">>
P_inner == <<"2", "0", "0", "1", ":", "d", "b", "8", ":", ":", "1">>
P_bad == <<"z", "z", ":", ":">>
I_8888 == <<"8", ".", "8", ".", "8", ".", "8">>
I_1234 == <<"1", ".", "2", ".", "3", ".", "4">>
I_max == <<"2", "5", "5", ".", "2", "5", "5", ".", "2", "5", "5", ".", "2", "5", "5">>
I_zero == <<"0", ".", "0", ".", "0", ".", "0">>
I_10 == <<"1", "0", ".", "0", ".", "2", "0", "0", ".", "1", "6">>
I_short == <<"1", ".", "2", ".", "3">>
I_256 == <<"2", "5", "6", ".", "1", ".", "1", ".", "1">>
I_lead0 == <<"0", "1", ".", "2", ".", "3", ".", "4">>
I_v6 == <<":", ":", "1">>
I_text == <<"l", "o", "c", "a", "l", "h", "o", "s", "t">>

(***************************************************************************)
(* Bounds and input sets                                                   *)
(***************************************************************************)
\* the longest chain the resolution provider returns
MaxChain == 3
\* resolution calls per thread
MaxCalls == 1
\* calls of load_dns_config after the constructor's
MaxLoadCalls == 2
\* lines appended to a base file in the loader's input files
MaxLines == 3
\* calls of filter_aaaa_records made on one chain
MaxApplications == 2

Threads == {1, 2}
\* the single caller of the synchronous scheduling model
Callers == {1}

Line(key, value) == <<key, value>>
NoFile == [exists |-> FALSE, lines |-> <<>>]
File(lines) == [exists |-> TRUE, lines |-> lines]

\* the records a provider's chain is made of
RecA1 ==
    [ai_flags |-> 2, ai_family |-> AF_INET, ai_socktype |-> SOCK_STREAM,
     ai_protocol |-> IPPROTO_TCP, ai_addrlen |-> SOCKADDR_IN_LEN,
     ai_addr |-> [port |-> 80, addr |-> <<1, 2, 3, 4>>], ai_canonname |-> "example.com"]
RecA2 ==
    [ai_flags |-> 0, ai_family |-> AF_INET, ai_socktype |-> SOCK_DGRAM,
     ai_protocol |-> IPPROTO_UDP, ai_addrlen |-> SOCKADDR_IN_LEN,
     ai_addr |-> [port |-> 443, addr |-> <<8, 8, 8, 8>>], ai_canonname |-> NoName]
RecAAAA ==
    [ai_flags |-> 0, ai_family |-> AF_INET6, ai_socktype |-> SOCK_STREAM,
     ai_protocol |-> IPPROTO_TCP, ai_addrlen |-> SOCKADDR_IN6_LEN,
     ai_addr |-> [port |-> 80, addr |-> <<0, 0, 0, 0, 0, 0, 0, 1>>], ai_canonname |-> NoName]
ProviderRecords == {RecA1, RecA2, RecAAAA}

Chains == UNION {[1..n -> ProviderRecords] : n \in 1..MaxChain}
NoOutcome == [code |-> 0, chain |-> <<>>]
Failures == {[code |-> c, chain |-> <<>>] : c \in {EAI_NONAME, EAI_AGAIN}}
ProviderOutcomes == Failures \cup {[code |-> 0, chain |-> ch] : ch \in Chains}
\* the outcomes of the two-thread specification
ConcOutcomes == {[code |-> EAI_NONAME, chain |-> <<>>], [code |-> 0, chain |-> <<RecA1, RecAAAA>>]}

\* config sources of the resolution specifications
ServerSets ==
    {<<>>,
     <<Line(K_dns_server, T_v6), Line(K_dns_server, T_v4)>>,
     <<Line(K_dns_server, T_v6), Line(K_dns_server, T_v4), Line(K_dns_server, T_v6b),
       Line(K_dns_server, T_v6c), Line(K_dns_server, T_v4b), Line(K_dns_server, T_v6d)>>}
FlagLine(key, on) == IF on = 1 THEN <<Line(key, S_true)>> ELSE <<>>
PrefixLines == {<<>>, <<Line(K_dns64_prefix, P_custom)>>}
MixedServers == <<Line(K_dns_server, T_v4_port), Line(K_dns_server, T_v6_bracket_port)>>
SpecFiles ==
    {NoFile} \cup {File(s) : s \in ServerSets} \cup
    {File(MixedServers \o FlagLine(K_filter_aaaa, a) \o FlagLine(K_enable_dns64, d)
            \o FlagLine(K_filter_a, f) \o p) :
        a \in {0, 1}, d \in {0, 1}, f \in {0, 1}, p \in PrefixLines}
ConcFiles ==
    {File(MixedServers \o FlagLine(K_filter_aaaa, 1) \o FlagLine(K_enable_dns64, 1)
            \o FlagLine(K_filter_a, 1))}

\* config sources of the loader's specification: a base, then up to MaxLines
\* lines of several kinds, or one dns_server line with one of the tokens
T_10_1 == <<"1", "0", ".", "0", ".", "0", ".", "1">>
T_10_2 == <<"1", "0", ".", "0", ".", "0", ".", "2">>
T_10_3 == <<"1", "0", ".", "0", ".", "0", ".", "3">>
T_10_4 == <<"1", "0", ".", "0", ".", "0", ".", "4">>
SevenServers ==
    <<Line(K_dns_server, T_10_1), Line(K_dns_server, T_v6), Line(K_dns_server, T_10_2),
      Line(K_dns_server, T_v4_port), Line(K_dns_server, T_10_3),
      Line(K_dns_server, T_v6_bracket), Line(K_dns_server, T_10_4)>>
StructLines ==
    {Line(K_dns_server, T_v4), Line(K_dns_server, T_v6_bracket_port),
     Line(K_dns_server, T_bad_v4), Line(K_nameserver, T_v4b), <<K_dns_server>>,
     Line(K_filter_a, S_true)}
Tokens ==
    {T_v4, T_v4_port, T_v6, T_v6_bracket_port, T_v6_bracket, T_ambiguous, T_unclosed,
     T_bad_v4, T_empty_port, T_bracket_junk, T_one_colon_v6, T_v4_big_port,
     T_v4_neg_port, T_bracket_v4, T_long_v6, T_full_v6}
OtherLines ==
    {<<>>, Line(T_comment, T_v4), <<K_dns_server, T_v4b, T_v4>>, Line(K_timeout, T_250),
     Line(K_use_tcp, S_1), Line(K_debug, T_false), Line(K_enable_dns64, S_1),
     Line(K_dns64_prefix, P_custom), Line(K_filter_aaaa, S_true)}
Tails ==
    UNION {[1..n -> StructLines] : n \in 0..MaxLines}
    \cup {<<Line(K_dns_server, v)>> : v \in Tokens}
    \cup {<<l, Line(K_dns_server, T_v6b)>> : l \in OtherLines}
LoadFiles == {NoFile} \cup {File(b \o t) : b \in {<<>>, SevenServers}, t \in Tails}
\* what the config source may be rewritten to while the process runs
AltFiles ==
    {NoFile,
     File(<<Line(K_dns_server, T_v4b), Line(K_timeout, T_250), Line(K_use_tcp, S_1),
            Line(K_filter_aaaa, S_true)>>)}

\* inputs of synthesize_dns64_address
SynthPrefixes == {DEFAULT_PREFIX, P_custom, P_slash96, P_two_gaps, P_no_colons, P_inner}
SynthInputs ==
    {I_8888, I_1234, I_max, I_zero, I_10, I_short, I_256, I_lead0, I_v6, I_text}

(***************************************************************************)
(* State                                                                   *)
(***************************************************************************)
VARIABLES
    conf_file,       \* the config source, as fopen and fgets would read it now
    config,          \* static struct dns_config config
    config_loaded,   \* static int config_loaded
    lib_loaded,      \* the constructor dns_override_init has run
    load_calls,      \* calls of load_dns_config completed after the constructor's
    loaded_from,     \* the config source as it was when load_dns_config read it
    res_state,       \* _res, the ambient resolver configuration
    ns6_heap,        \* the sockaddr_in6 descriptors calloc has returned
    pc,              \* each thread's position in gethostbyname/getaddrinfo
    func,            \* the function each thread is in or was last in
    node,            \* getaddrinfo's node is not NULL
    original_state,  \* each call's struct __res_state original_state
    res,             \* the caller's *res
    result,          \* each call's result
    provided,        \* what the resolution provider returned to the call
    filtered,        \* the value filter_aaaa_records returned
    added,           \* the value add_dns64_addresses returned
    filtered_a,      \* the value filter_a_records returned
    calls,           \* resolution calls each thread has started
    invocations,     \* how often the call has invoked the original function
    nomem,           \* the stages of the call in which an allocation failed
    mem,             \* the bookkeeping of the call's latest filter stage
    ipv4_str,        \* synthesize_dns64_address's argument
    ipv6_str,        \* its output buffer
    synth_ret,       \* its return value (-1: not called yet)
    applications     \* filter_aaaa_records calls made on the chain res[1] directly

loader_vars == <<conf_file, config, config_loaded, lib_loaded, load_calls, loaded_from>>
resolver_vars == <<res_state, ns6_heap>>
call_vars == <<pc, func, node, original_state, res, result, provided,
               filtered, added, filtered_a, calls, invocations, nomem, mem>>
synth_vars == <<ipv4_str, ipv6_str, synth_ret, applications>>
vars == <<loader_vars, resolver_vars, call_vars, synth_vars>>

(***************************************************************************)
(* load_dns_config and its callers                                         *)
(***************************************************************************)
\* no filter stage has run in the call
NoFilter == [input |-> <<>>, ret |-> 0, allocated |-> 0, released |-> 0,
             freed_input |-> FALSE]
\* the bookkeeping of a filter stage run on `input` with outcome r
FilterRun(input, r) ==
    [input |-> input, ret |-> r.ret, allocated |-> r.allocated,
     released |-> r.released, freed_input |-> r.freed_input]

\* a load that reads the source again on every call
ConfigAfterLoad_Reloads(cfg, loaded, f) == LoadedConfig(cfg, f)

\* the config after a call of load_dns_config
ConfigAfterLoad(cfg, loaded, f) ==
    IF loaded # 0 THEN cfg ELSE LoadedConfig(cfg, f)

load_dns_config ==
    /\ config' = ConfigAfterLoad(config, config_loaded, conf_file)
    /\ config_loaded' = 1
    /\ loaded_from' = IF config_loaded # 0 THEN loaded_from ELSE conf_file

\* the constructor, run once when the library is loaded
dns_override_init ==
    /\ ~lib_loaded
    /\ lib_loaded' = TRUE
    /\ load_dns_config
    /\ UNCHANGED <<conf_file, load_calls, resolver_vars, call_vars, synth_vars>>

\* query_custom_dns: load_dns_config, then a connect probe of each server,
\* which changes no state of the library
query_custom_dns ==
    /\ lib_loaded
    /\ load_calls < MaxLoadCalls
    /\ load_dns_config
    /\ load_calls' = load_calls + 1
    /\ UNCHANGED <<conf_file, lib_loaded, resolver_vars, call_vars, synth_vars>>

\* the environment rewrites the config source (or DNS_OVERRIDE_CONFIG is
\* pointed at another file)
ChangeConfigFile ==
    /\ conf_file' \in AltFiles \ {conf_file}
    /\ UNCHANGED <<config, config_loaded, lib_loaded, load_calls, loaded_from,
                   resolver_vars, call_vars, synth_vars>>

\* one call of synthesize_dns64_address(ipv4_str, ipv6_str, sizeof(ipv6_str))
Synthesize ==
    /\ synth_ret = -1
    /\ LET s == synthesize_dns64_address(ipv4_str, config.dns64_prefix)
       IN /\ synth_ret' = s.ret
          /\ ipv6_str' = s.ipv6_str
    /\ UNCHANGED <<loader_vars, resolver_vars, call_vars, ipv4_str, applications>>

\* one call of filter_aaaa_records(&res) on the chain res[1], made after
\* every earlier one returned without error
DropAAAA ==
    /\ applications < MaxApplications
    /\ filtered[1] >= 0
    /\ \E failAt \in 0..AllocCount(res[1], AF_INET6) :
          LET r == filter_aaaa_records(res[1], config, failAt)
          IN /\ filtered' = [filtered EXCEPT ![1] = r.ret]
             /\ res' = [res EXCEPT ![1] = r.chain]
             /\ mem' = [mem EXCEPT ![1] = FilterRun(res[1], r)]
    /\ applications' = applications + 1
    /\ UNCHANGED <<loader_vars, resolver_vars, pc, func, node, original_state, result,
                   provided, added, filtered_a, calls, invocations, nomem,
                   ipv4_str, ipv6_str, synth_ret>>

(***************************************************************************)
(* getaddrinfo                                                             *)
(***************************************************************************)
\* the positions of the IPv4 records of a chain
V4Positions(chain) == {i \in 1..Len(chain) : chain[i].ai_family = AF_INET}

\* entry: init_original_functions, load_dns_config, "Save original resolver
\* state"
GaiEnter(t) ==
    /\ lib_loaded
    /\ pc[t] \in {"idle", "returned"}
    /\ calls[t] < MaxCalls
    /\ load_dns_config
    /\ \E n \in BOOLEAN : node' = [node EXCEPT ![t] = n]
    /\ original_state' = [original_state EXCEPT ![t] = res_state]
    /\ func' = [func EXCEPT ![t] = "getaddrinfo"]
    /\ res' = [res EXCEPT ![t] = <<>>]
    /\ result' = [result EXCEPT ![t] = 0]
    /\ provided' = [provided EXCEPT ![t] = NoOutcome]
    /\ filtered' = [filtered EXCEPT ![t] = 0]
    /\ added' = [added EXCEPT ![t] = 0]
    /\ filtered_a' = [filtered_a EXCEPT ![t] = 0]
    /\ calls' = [calls EXCEPT ![t] = @ + 1]
    /\ invocations' = [invocations EXCEPT ![t] = 0]
    /\ nomem' = [nomem EXCEPT ![t] = {}]
    /\ mem' = [mem EXCEPT ![t] = NoFilter]
    /\ pc' = [pc EXCEPT ![t] = "gai_install"]
    /\ UNCHANGED <<conf_file, lib_loaded, load_calls, resolver_vars, synth_vars>>

\* "Modify resolver to use our DNS servers" and "Set timeout"
GaiInstall(t) ==
    /\ pc[t] = "gai_install"
    /\ \E noMem \in SUBSET V6Slots(config) :
          LET st == InstallServers(config, ResInit, ns6_heap, t, noMem)
          IN /\ res_state' = SetTimeout(st.res, config)
             /\ ns6_heap' = st.heap
    /\ pc' = [pc EXCEPT ![t] = "gai_query"]
    /\ UNCHANGED <<loader_vars, func, node, original_state, res, result, provided,
                   filtered, added, filtered_a, calls, invocations, nomem, mem, synth_vars>>

\* a call that reports every failure of the original function as EAI_NONAME
GaiQuery_MasksError(t, outcomes) ==
    /\ pc[t] = "gai_query"
    /\ \E o \in outcomes :
          /\ provided' = [provided EXCEPT ![t] = o]
          /\ result' = [result EXCEPT ![t] = IF o.code = 0 THEN 0 ELSE EAI_NONAME]
          /\ res' = [res EXCEPT ![t] = IF o.code = 0 THEN o.chain ELSE @]
          /\ pc' = [pc EXCEPT ![t] = IF o.code = 0 /\ node[t] /\ o.chain # <<>>
                                     THEN "gai_aaaa" ELSE "gai_cleanup"]
    /\ invocations' = [invocations EXCEPT ![t] = @ + 1]
    /\ UNCHANGED <<loader_vars, resolver_vars, func, node, original_state,
                   filtered, added, filtered_a, calls, nomem, mem, synth_vars>>

\* "Call original function with modified resolver", then the test
\* result == 0 && node && *res
GaiQuery(t, outcomes) ==
    /\ pc[t] = "gai_query"
    /\ \E o \in outcomes :
          /\ provided' = [provided EXCEPT ![t] = o]
          /\ result' = [result EXCEPT ![t] = o.code]
          /\ res' = [res EXCEPT ![t] = IF o.code = 0 THEN o.chain ELSE @]
          /\ pc' = [pc EXCEPT ![t] = IF o.code = 0 /\ node[t] /\ o.chain # <<>>
                                     THEN "gai_aaaa" ELSE "gai_cleanup"]
    /\ invocations' = [invocations EXCEPT ![t] = @ + 1]
    /\ UNCHANGED <<loader_vars, resolver_vars, func, node, original_state,
                   filtered, added, filtered_a, calls, nomem, mem, synth_vars>>

\* "First, filter out AAAA records if requested"
GaiFilterAAAA(t) ==
    /\ pc[t] = "gai_aaaa"
    /\ IF config.filter_aaaa # 0
       THEN \E failAt \in 0..AllocCount(res[t], AF_INET6) :
               LET r == filter_aaaa_records(res[t], config, failAt)
               IN /\ filtered' = [filtered EXCEPT ![t] = r.ret]
                  /\ res' = [res EXCEPT ![t] = r.chain]
                  /\ mem' = [mem EXCEPT ![t] = FilterRun(res[t], r)]
                  /\ nomem' = [nomem EXCEPT ![t] = IF failAt # 0 THEN @ \cup {"aaaa"} ELSE @]
                  /\ pc' = [pc EXCEPT ![t] = IF r.ret < 0 THEN "gai_abort_aaaa"
                                             ELSE "gai_dns64"]
       ELSE /\ pc' = [pc EXCEPT ![t] = "gai_dns64"]
            /\ UNCHANGED <<filtered, res, nomem, mem>>
    /\ UNCHANGED <<loader_vars, resolver_vars, func, node, original_state, result,
                   provided, added, filtered_a, calls, invocations, synth_vars>>

\* the three copies of "clean up and restore original state"
CleanedAndRestored(t) ==
    LET f == FreeDescriptors(res_state, ns6_heap)
    IN /\ ns6_heap' = f.heap
       /\ res_state' = RestoredState(original_state[t], f.res)

\* "Error in filtering, clean up and restore original state", return EAI_MEMORY
GaiAbortAAAA(t) ==
    /\ pc[t] = "gai_abort_aaaa"
    /\ CleanedAndRestored(t)
    /\ result' = [result EXCEPT ![t] = EAI_MEMORY]
    /\ pc' = [pc EXCEPT ![t] = "returned"]
    /\ UNCHANGED <<loader_vars, func, node, original_state, res, provided,
                   filtered, added, filtered_a, calls, invocations, nomem, mem, synth_vars>>

\* a synthesize stage that runs whatever enable_dns64 is
GaiDns64_Always(t) ==
    /\ pc[t] = "gai_dns64"
    /\ IF res[t] # <<>>
       THEN \E noMem \in SUBSET V4Positions(res[t]) :
               LET r == add_dns64_addresses(res[t], [config EXCEPT !.enable_dns64 = 1], noMem)
               IN /\ added' = [added EXCEPT ![t] = r.ret]
                  /\ res' = [res EXCEPT ![t] = r.chain]
                  /\ nomem' = [nomem EXCEPT ![t] = IF noMem # {} THEN @ \cup {"dns64"} ELSE @]
       ELSE UNCHANGED <<added, res, nomem>>
    /\ pc' = [pc EXCEPT ![t] = "gai_a"]
    /\ UNCHANGED <<loader_vars, resolver_vars, func, node, original_state, result,
                   provided, filtered, filtered_a, calls, invocations, mem, synth_vars>>

\* "Then, if DNS64 is enabled, add synthetic IPv6 addresses"
GaiDns64(t) ==
    /\ pc[t] = "gai_dns64"
    /\ IF config.enable_dns64 # 0 /\ res[t] # <<>>
       THEN \E noMem \in SUBSET V4Positions(res[t]) :
               LET r == add_dns64_addresses(res[t], config, noMem)
               IN /\ added' = [added EXCEPT ![t] = r.ret]
                  /\ res' = [res EXCEPT ![t] = r.chain]
                  /\ nomem' = [nomem EXCEPT ![t] = IF noMem # {} THEN @ \cup {"dns64"} ELSE @]
       ELSE UNCHANGED <<added, res, nomem>>
    /\ pc' = [pc EXCEPT ![t] = "gai_a"]
    /\ UNCHANGED <<loader_vars, resolver_vars, func, node, original_state, result,
                   provided, filtered, filtered_a, calls, invocations, mem, synth_vars>>

\* "Finally, filter out A records if requested (after DNS64 synthesis)"
GaiFilterA(t) ==
    /\ pc[t] = "gai_a"
    /\ IF config.filter_a # 0 /\ res[t] # <<>>
       THEN \E failAt \in 0..AllocCount(res[t], AF_INET) :
               LET r == filter_a_records(res[t], config, failAt)
               IN /\ filtered_a' = [filtered_a EXCEPT ![t] = r.ret]
                  /\ res' = [res EXCEPT ![t] = r.chain]
                  /\ mem' = [mem EXCEPT ![t] = FilterRun(res[t], r)]
                  /\ nomem' = [nomem EXCEPT ![t] = IF failAt # 0 THEN @ \cup {"a"} ELSE @]
                  /\ pc' = [pc EXCEPT ![t] = IF r.ret < 0 THEN "gai_abort_a"
                                             ELSE "gai_cleanup"]
       ELSE /\ pc' = [pc EXCEPT ![t] = "gai_cleanup"]
            /\ UNCHANGED <<filtered_a, res, nomem, mem>>
    /\ UNCHANGED <<loader_vars, resolver_vars, func, node, original_state, result,
                   provided, filtered, added, calls, invocations, synth_vars>>

GaiAbortA(t) ==
    /\ pc[t] = "gai_abort_a"
    /\ CleanedAndRestored(t)
    /\ result' = [result EXCEPT ![t] = EAI_MEMORY]
    /\ pc' = [pc EXCEPT ![t] = "returned"]
    /\ UNCHANGED <<loader_vars, func, node, original_state, res, provided,
                   filtered, added, filtered_a, calls, invocations, nomem, mem, synth_vars>>

\* "Clean up allocated IPv6 nameserver memory"
GaiCleanup(t) ==
    /\ pc[t] = "gai_cleanup"
    /\ LET f == FreeDescriptors(res_state, ns6_heap)
       IN /\ ns6_heap' = f.heap
          /\ res_state' = f.res
    /\ pc' = [pc EXCEPT ![t] = "gai_restore"]
    /\ UNCHANGED <<loader_vars, func, node, original_state, res, result, provided,
                   filtered, added, filtered_a, calls, invocations, nomem, mem, synth_vars>>

\* "Restore original resolver state", the debug dump, return result
GaiRestore(t) ==
    /\ pc[t] = "gai_restore"
    /\ res_state' = RestoredState(original_state[t], res_state)
    /\ pc' = [pc EXCEPT ![t] = "returned"]
    /\ UNCHANGED <<loader_vars, ns6_heap, func, node, original_state, res, result,
                   provided, filtered, added, filtered_a, calls, invocations, nomem, mem, synth_vars>>

(***************************************************************************)
(* gethostbyname                                                           *)
(***************************************************************************)
GhnEnter(t) ==
    /\ lib_loaded
    /\ pc[t] \in {"idle", "returned"}
    /\ calls[t] < MaxCalls
    /\ load_dns_config
    /\ original_state' = [original_state EXCEPT ![t] = res_state]
    /\ func' = [func EXCEPT ![t] = "gethostbyname"]
    /\ node' = [node EXCEPT ![t] = TRUE]
    /\ res' = [res EXCEPT ![t] = <<>>]
    /\ result' = [result EXCEPT ![t] = 0]
    /\ provided' = [provided EXCEPT ![t] = NoOutcome]
    /\ filtered' = [filtered EXCEPT ![t] = 0]
    /\ added' = [added EXCEPT ![t] = 0]
    /\ filtered_a' = [filtered_a EXCEPT ![t] = 0]
    /\ calls' = [calls EXCEPT ![t] = @ + 1]
    /\ invocations' = [invocations EXCEPT ![t] = 0]
    /\ nomem' = [nomem EXCEPT ![t] = {}]
    /\ mem' = [mem EXCEPT ![t] = NoFilter]
    /\ pc' = [pc EXCEPT ![t] = "ghn_install"]
    /\ UNCHANGED <<conf_file, lib_loaded, load_calls, resolver_vars, synth_vars>>

\* res_init(); _res.nscount = 0; the install loop; "Set timeout"
GhnInstall(t) ==
    /\ pc[t] = "ghn_install"
    /\ res_state' = SetTimeout(InstallServers4(config, [SystemRes EXCEPT !.nscount = 0]),
                               config)
    /\ pc' = [pc EXCEPT ![t] = "ghn_query"]
    /\ UNCHANGED <<loader_vars, ns6_heap, func, node, original_state, res, result,
                   provided, filtered, added, filtered_a, calls, invocations, nomem, mem, synth_vars>>

\* original_gethostbyname(name): a hostent (result 1) or NULL (result 0)
GhnQuery(t) ==
    /\ pc[t] = "ghn_query"
    /\ \E found \in {0, 1} : result' = [result EXCEPT ![t] = found]
    /\ invocations' = [invocations EXCEPT ![t] = @ + 1]
    /\ pc' = [pc EXCEPT ![t] = "ghn_restore"]
    /\ UNCHANGED <<loader_vars, resolver_vars, func, node, original_state, res,
                   provided, filtered, added, filtered_a, calls, nomem, mem, synth_vars>>

\* "Restore original resolver state", return result
GhnRestore(t) ==
    /\ pc[t] = "ghn_restore"
    /\ res_state' = RestoredState(original_state[t], res_state)
    /\ pc' = [pc EXCEPT ![t] = "returned"]
    /\ UNCHANGED <<loader_vars, ns6_heap, func, node, original_state, res, result,
                   provided, filtered, added, filtered_a, calls, invocations, nomem, mem, synth_vars>>

(***************************************************************************)
(* Specifications                                                          *)
(***************************************************************************)
InitCalls ==
    /\ pc = [t \in Threads |-> "idle"]
    /\ func = [t \in Threads |-> "none"]
    /\ node = [t \in Threads |-> TRUE]
    /\ original_state = [t \in Threads |-> ZeroRes]
    /\ res = [t \in Threads |-> <<>>]
    /\ result = [t \in Threads |-> 0]
    /\ provided = [t \in Threads |-> NoOutcome]
    /\ filtered = [t \in Threads |-> 0]
    /\ added = [t \in Threads |-> 0]
    /\ filtered_a = [t \in Threads |-> 0]
    /\ calls = [t \in Threads |-> 0]
    /\ invocations = [t \in Threads |-> 0]
    /\ nomem = [t \in Threads |-> {}]
    /\ mem = [t \in Threads |-> NoFilter]

InitSynthIdle ==
    /\ ipv4_str = <<>>
    /\ ipv6_str = <<>>
    /\ synth_ret = -1
    /\ applications = 0

InitLibrary ==
    /\ config = ZeroConfig
    /\ config_loaded = 0
    /\ lib_loaded = FALSE
    /\ load_calls = 0
    /\ loaded_from = NoFile
    /\ ns6_heap = <<>>

\* one resolution call: every step of getaddrinfo and of gethostbyname
Call(t, outcomes) ==
    \/ GaiEnter(t)
    \/ GaiInstall(t)
    \/ GaiQuery(t, outcomes)
    \/ GaiFilterAAAA(t)
    \/ GaiAbortAAAA(t)
    \/ GaiDns64(t)
    \/ GaiFilterA(t)
    \/ GaiAbortA(t)
    \/ GaiCleanup(t)
    \/ GaiRestore(t)
    \/ GhnEnter(t)
    \/ GhnInstall(t)
    \/ GhnQuery(t)
    \/ GhnRestore(t)

\* The library in a process that makes its resolution calls one at a time
Init ==
    /\ InitLibrary
    /\ conf_file \in SpecFiles
    /\ res_state \in AmbientStates
    /\ InitCalls
    /\ InitSynthIdle

Next ==
    \/ dns_override_init
    \/ \E t \in Callers : Call(t, ProviderOutcomes)

Spec == Init /\ [][Next]_vars

\* The loader: the constructor, later calls of load_dns_config, and a config
\* source that changes under the process
InitLoad ==
    /\ InitLibrary
    /\ conf_file \in LoadFiles
    /\ res_state = ZeroRes
    /\ InitCalls
    /\ InitSynthIdle

NextLoad ==
    \/ dns_override_init
    \/ query_custom_dns
    \/ ChangeConfigFile

SpecLoad == InitLoad /\ [][NextLoad]_vars

\* synthesize_dns64_address on its own, in a library whose config was loaded
\* from a source that sets dns64_prefix
InitSynth ==
    /\ \E p \in SynthPrefixes :
          /\ conf_file = File(<<Line(K_dns64_prefix, p)>>)
          /\ config = LoadedConfig(ZeroConfig, conf_file)
          /\ loaded_from = conf_file
    /\ config_loaded = 1
    /\ lib_loaded = TRUE
    /\ load_calls = 0
    /\ ns6_heap = <<>>
    /\ res_state = ZeroRes
    /\ InitCalls
    /\ ipv4_str \in SynthInputs
    /\ ipv6_str = <<>>
    /\ synth_ret = -1
    /\ applications = 0

NextSynth == Synthesize

SpecSynth == InitSynth /\ [][NextSynth]_vars

\* filter_aaaa_records on its own, applied repeatedly to a chain, in a
\* library whose config has filter_aaaa on
InitFilter ==
    /\ conf_file = File(FlagLine(K_filter_aaaa, 1))
    /\ config = LoadedConfig(ZeroConfig, conf_file)
    /\ loaded_from = conf_file
    /\ config_loaded = 1
    /\ lib_loaded = TRUE
    /\ load_calls = 0
    /\ ns6_heap = <<>>
    /\ res_state = ZeroRes
    /\ pc = [t \in Threads |-> "idle"]
    /\ func = [t \in Threads |-> "none"]
    /\ node = [t \in Threads |-> TRUE]
    /\ original_state = [t \in Threads |-> ZeroRes]
    /\ res \in {[t \in Threads |-> IF t = 1 THEN ch ELSE <<>>] : ch \in Chains}
    /\ result = [t \in Threads |-> 0]
    /\ provided = [t \in Threads |-> NoOutcome]
    /\ filtered = [t \in Threads |-> 0]
    /\ added = [t \in Threads |-> 0]
    /\ filtered_a = [t \in Threads |-> 0]
    /\ calls = [t \in Threads |-> 0]
    /\ invocations = [t \in Threads |-> 0]
    /\ nomem = [t \in Threads |-> {}]
    /\ mem = [t \in Threads |-> NoFilter]
    /\ InitSynthIdle

NextFilter == DropAAAA

SpecFilter == InitFilter /\ [][NextFilter]_vars

\* Two threads that call into the library with no coordination
InitConc ==
    /\ InitLibrary
    /\ conf_file \in ConcFiles
    /\ res_state \in AmbientStates
    /\ InitCalls
    /\ InitSynthIdle

NextConc ==
    \/ dns_override_init
    \/ \E t \in Threads : Call(t, ConcOutcomes)

SpecConc == InitConc /\ [][NextConc]_vars

(***************************************************************************)
(* Properties                                                              *)
(***************************************************************************)
\* the records of a chain whose family is not `family`, in order
Without(chain, family) == SelectSeq(chain, LAMBDA r : r.ai_family # family)
\* the records of a chain whose family is `family`, in order
OfFamily(chain, family) == SelectSeq(chain, LAMBDA r : r.ai_family = family)

\* a thread is between its install step and the end of its restore step
InScope(t) ==
    pc[t] \in {"gai_query", "gai_aaaa", "gai_abort_aaaa", "gai_dns64", "gai_a",
               "gai_abort_a", "gai_cleanup", "gai_restore", "ghn_query", "ghn_restore"}

\* C1: at every return of getaddrinfo and gethostbyname (provider success,
\* provider failure, a failing filter stage) the ambient resolver configuration
\* equals the one saved at entry, every IPv6 server descriptor the call
\* allocated has been freed exactly once, and no descriptor is ever freed twice.
C1_RestoredOnEveryExit ==
    /\ \A d \in 1..Len(ns6_heap) : ns6_heap[d].frees <= 1
    /\ \A t \in Callers :
          pc[t] = "returned" =>
             /\ res_state = original_state[t]
             /\ \A d \in 1..Len(ns6_heap) :
                   ns6_heap[d].owner = t => ns6_heap[d].frees = 1

\* a getaddrinfo call that installed an IPv6 descriptor over an application's
\* own resolver configuration has returned EAI_MEMORY from a failing stage
C1_Witness ==
    /\ pc[1] = "returned"
    /\ func[1] = "getaddrinfo"
    /\ result[1] = EAI_MEMORY
    /\ original_state[1] = AppRes
    /\ \E d \in 1..Len(ns6_heap) : ns6_heap[d].owner = 1

\* C2: no two threads are at the same time between their install step and
\* their restore step.
C2_MutualExclusion ==
    \A t1 \in Threads : \A t2 \in Threads :
        t1 # t2 => ~(InScope(t1) /\ InScope(t2))

\* the dns_server tokens of a config source, in file order
ServerTokens(f) ==
    LET RECURSIVE toks(_)
        toks(ls) ==
            IF ls = <<>> THEN <<>>
            ELSE LET l == Head(ls)
                 IN (IF ~IsComment(l) /\ Len(l) >= 2 /\ l[1] = K_dns_server
                     THEN <<l[2]>> ELSE <<>>) \o toks(Tail(ls))
    IN IF f.exists THEN toks(f.lines) ELSE <<>>

\* the loader validated the address it extracted from the token
Validated(v) == ~ExtractServer(v).skip /\ ValidServer(ExtractServer(v))

\* the entries of the validated tokens of a source, in file order
ValidatedEntries(f) ==
    LET v == SelectSeq(ServerTokens(f), Validated)
    IN [k \in 1..Len(v) |->
           [addr |-> ExtractServer(v[k]).addr,
            port |-> ExtractServer(v[k]).port,
            family |-> ExtractServer(v[k]).family]]

\* the two built-in defaults as the specification describes them
DocumentedDefaults ==
    <<[addr |-> DEFAULT_SERVER_0, port |-> DEFAULT_DNS_PORT, family |-> AF_INET],
      [addr |-> DEFAULT_SERVER_1, port |-> DEFAULT_DNS_PORT, family |-> AF_INET]>>

\* C3: when the source was unreadable, or no dns_server entry of it was
\* accepted, Config.servers is 8.8.8.8 port 53 then 1.1.1.1 port 53, both of
\* family IPv4.
C3_DefaultsAreIPv4 ==
    (config_loaded = 1 /\ ValidatedEntries(loaded_from) = <<>>)
        => Servers(config) = DocumentedDefaults

Documented(v) ==
    IF v[1] = "["
    THEN IF StrChr(v, "]") = 0
         THEN [rejected |-> TRUE, addr |-> <<>>, port |-> DEFAULT_DNS_PORT, family |-> AF_INET6]
         ELSE [rejected |-> FALSE,
               addr |-> SubSeq(v, 2, StrChr(v, "]") - 1),
               port |-> IF StrChr(v, "]") < Len(v) /\ v[StrChr(v, "]") + 1] = ":"
                        THEN atoi(Drop(v, StrChr(v, "]") + 2))
                        ELSE DEFAULT_DNS_PORT,
               family |-> AF_INET6]
    ELSE IF CountChar(v, ":") > 1
    THEN [rejected |-> FALSE, addr |-> v, port |-> DEFAULT_DNS_PORT, family |-> AF_INET6]
    ELSE IF CountChar(v, ":") = 1
    THEN [rejected |-> FALSE, addr |-> SubSeq(v, 1, StrChr(v, ":") - 1),
          port |-> atoi(Drop(v, StrChr(v, ":") + 1)), family |-> AF_INET]
    ELSE [rejected |-> FALSE, addr |-> v, port |-> DEFAULT_DNS_PORT, family |-> AF_INET]

\* the documented classification yields an address valid for its family
DocumentedAccepts(v) ==
    /\ ~Documented(v).rejected
    /\ IF Documented(v).family = AF_INET THEN inet_pton4_ok(Documented(v).addr)
       ELSE inet_pton6_ok(Documented(v).addr)

\* C5: a source whose only line is `dns_server v` loads v as the documented
\* algorithm classifies it: the bracketed text, the whole token, or the text
\* before the single colon, with the documented port and family; a token the
\* algorithm rejects, or whose documented address is invalid, adds no entry.
C5_DocumentedClassification ==
    (config_loaded = 1 /\ Len(ServerTokens(loaded_from)) = 1) =>
        LET v == ServerTokens(loaded_from)[1]
        IN IF DocumentedAccepts(v)
           THEN Servers(config) = <<[addr |-> Documented(v).addr,
                                     port |-> Documented(v).port,
                                     family |-> Documented(v).family]>>
           ELSE /\ config.server_count = 2
                /\ config.dns_servers[0] = DEFAULT_SERVER_0
                /\ config.dns_servers[1] = DEFAULT_SERVER_1

\* C6: once load_dns_config has completed, no step changes any field of
\* Config, whatever the config source has become.
C6_LoadedOnce == [][config_loaded = 1 => config' = config]_vars

\* load_dns_config was called again after the source had changed to one that
\* would load differently
C6_Witness ==
    /\ config_loaded = 1
    /\ load_calls >= 1
    /\ conf_file # loaded_from
    /\ LoadedConfig(config, conf_file) # config

\* a text ends in "::"
EndsInGap(p) == Len(p) >= 2 /\ p[Len(p)] = ":" /\ p[Len(p) - 1] = ":"

\* C7: for a valid IPv4 address a.b.c.d and a prefix P ending in "::",
\* synthesize returns P without its trailing "::", then "::", hex(a*256+b),
\* ":", hex(c*256+d); it rejects every text that is no IPv4 address.
C7_SynthesizedText ==
    synth_ret # -1 =>
        IF inet_pton4_ok(ipv4_str)
        THEN EndsInGap(config.dns64_prefix) =>
                /\ synth_ret = 1
                /\ ipv6_str = SubSeq(config.dns64_prefix, 1, Len(config.dns64_prefix) - 2)
                                \o <<":", ":">>
                                \o ToHex(inet_pton4(ipv4_str)[1] * 256 + inet_pton4(ipv4_str)[2])
                                \o <<":">>
                                \o ToHex(inet_pton4(ipv4_str)[3] * 256 + inet_pton4(ipv4_str)[4])
        ELSE synth_ret = 0

\* C8 as stated: with filterAAAA on, after the drop-AAAA stage the chain is
\* the non-IPv6 records of the provider's chain C, field for field and in
\* order, and the stage returned the number of IPv6 records of C.
C8_AlwaysReplaced ==
    \A t \in Callers :
        (config.filter_aaaa # 0 /\ pc[t] \in {"gai_dns64", "gai_abort_aaaa"}) =>
            /\ res[t] = Without(provided[t].chain, AF_INET6)
            /\ filtered[t] = Len(OfFamily(provided[t].chain, AF_INET6))

\* C8: with filterAAAA on, when every allocation of the drop-AAAA stage
\* succeeds the chain becomes the non-IPv6 records of C, field for field and
\* in order, |C| minus the IPv6 records long, and the stage returns the number
\* removed; when an allocation fails the stage returns -1 and C stays.
C8_ReplacedUnlessNoMemory ==
    \A t \in Callers :
        config.filter_aaaa # 0 =>
            /\ pc[t] = "gai_dns64" =>
                  /\ res[t] = Without(provided[t].chain, AF_INET6)
                  /\ filtered[t] = Len(OfFamily(provided[t].chain, AF_INET6))
                  /\ Len(res[t]) = Len(provided[t].chain) - filtered[t]
            /\ pc[t] = "gai_abort_aaaa" =>
                  /\ filtered[t] = -1
                  /\ res[t] = provided[t].chain

\* the stage has dropped the middle record of a chain of three
C8_Witness ==
    /\ config.filter_aaaa # 0
    /\ pc[1] = "gai_dns64"
    /\ provided[1].chain = <<RecA1, RecAAAA, RecA2>>
    /\ res[1] = <<RecA1, RecA2>>
    /\ filtered[1] = 1

\* what a synthesized record must carry over from its IPv4 source
Carried(r) ==
    [family |-> r.ai_family, socktype |-> r.ai_socktype, protocol |-> r.ai_protocol,
     port |-> r.ai_addr.port,
     low32 |-> <<r.ai_addr.addr[Len(r.ai_addr.addr) - 1], r.ai_addr.addr[Len(r.ai_addr.addr)]>>]
ExpectedOf(src) ==
    [family |-> AF_INET6, socktype |-> src.ai_socktype, protocol |-> src.ai_protocol,
     port |-> src.ai_addr.port,
     low32 |-> <<src.ai_addr.addr[1] * 256 + src.ai_addr.addr[2],
                 src.ai_addr.addr[3] * 256 + src.ai_addr.addr[4]>>]

\* chain is `kept` followed by one synthesized record per record of `sources`
KeptThenSynthesized(chain, kept, sources) ==
    /\ Len(chain) = Len(kept) + Len(sources)
    /\ SubSeq(chain, 1, Len(kept)) = kept
    /\ \A k \in 1..Len(sources) : Carried(chain[Len(kept) + k]) = ExpectedOf(sources[k])

\* a getaddrinfo call for a node has returned success on a provider's chain
Succeeded(t) ==
    /\ pc[t] = "returned"
    /\ func[t] = "getaddrinfo"
    /\ node[t]
    /\ result[t] = 0
    /\ provided[t].chain # <<>>

\* C9: with dns64 on and both filters off, the final chain is the provider's
\* chain followed by one synthesized IPv6 record per IPv4 record of it, in
\* order, each with its source's port, socket type and protocol.
C9_OneSynthesizedPerIPv4 ==
    \A t \in Callers :
        (Succeeded(t) /\ config.enable_dns64 # 0 /\ config.filter_aaaa = 0
            /\ config.filter_a = 0) =>
            KeptThenSynthesized(res[t], provided[t].chain,
                                OfFamily(provided[t].chain, AF_INET))

\* C10: with filterA and dns64 on and filterAAAA off, the final chain has no
\* IPv4 record and is the provider's IPv6 records in order followed by the
\* synthesized records, one per IPv4 record of the provider's chain, in order.
C10_OnlyIPv6AndSynthesized ==
    \A t \in Callers :
        (Succeeded(t) /\ config.enable_dns64 # 0 /\ config.filter_a # 0
            /\ config.filter_aaaa = 0) =>
            /\ OfFamily(res[t], AF_INET) = <<>>
            /\ KeptThenSynthesized(res[t], Without(provided[t].chain, AF_INET),
                                   OfFamily(provided[t].chain, AF_INET))

\* C11: with filterAAAA, dns64 and filterA all on, a successful call hands
\* back exactly the synthesized IPv6 records of the provider's IPv4 records,
\* in order: no IPv6 record of the provider's chain and no IPv4 record.
C11_OnlySynthesized ==
    \A t \in Callers :
        (Succeeded(t) /\ config.filter_aaaa # 0 /\ config.enable_dns64 # 0
            /\ config.filter_a # 0) =>
            /\ OfFamily(res[t], AF_INET) = <<>>
            /\ KeptThenSynthesized(res[t], <<>>, OfFamily(provided[t].chain, AF_INET))

\* C12: a getaddrinfo call in which an allocation of the drop-AAAA, the
\* synthesize or the drop-A stage failed returns EAI_MEMORY, never success.
C12_NoMemoryAborts ==
    \A t \in Callers :
        (pc[t] = "returned" /\ func[t] = "getaddrinfo" /\ nomem[t] # {})
            => result[t] = EAI_MEMORY

\* C13: when getaddrinfo returns because a pipeline stage failed, the caller
\* holds no chain: the provider's chain, the synthesized records and the
\* stage's partly built chain have all been released.
C13_NoChainAfterAbort ==
    \A t \in Callers :
        (pc[t] = "returned" /\ func[t] = "getaddrinfo" /\ result[t] = EAI_MEMORY)
            => /\ res[t] = <<>>
               /\ mem[t].released = mem[t].allocated

\* C14: a filter stage that has returned -1 has released everything it
\* allocated for the new chain and has left its input chain in place, not
\* freed; only a stage in which no allocation failed frees its input.
C14_FilterAtomic ==
    \A t \in Callers :
        /\ pc[t] \in {"gai_abort_aaaa", "gai_abort_a"} =>
              /\ mem[t].ret = -1
              /\ mem[t].released = mem[t].allocated
              /\ ~mem[t].freed_input
              /\ res[t] = mem[t].input
        /\ mem[t].freed_input => (mem[t].ret >= 0 /\ mem[t].released = 0)

\* C15: a getaddrinfo call invokes the original function once; when that
\* fails, the call returns its error code, no pipeline stage has run and the
\* caller's pointer is as the original function left it.
C15_ProviderOnceErrorsThrough ==
    \A t \in Callers :
        func[t] = "getaddrinfo" =>
            /\ invocations[t] <= 1
            /\ pc[t] = "returned" =>
                  /\ invocations[t] = 1
                  /\ provided[t].code # 0 =>
                        /\ result[t] = provided[t].code
                        /\ res[t] = <<>>
                        /\ filtered[t] = 0 /\ added[t] = 0 /\ filtered_a[t] = 0
                        /\ mem[t] = NoFilter /\ nomem[t] = {}

\* a call has returned EAI_AGAIN from the original function under a config
\* with all three stages on
C15_Witness ==
    /\ pc[1] = "returned"
    /\ func[1] = "getaddrinfo"
    /\ provided[1].code = EAI_AGAIN
    /\ result[1] = EAI_AGAIN
    /\ config.filter_aaaa # 0 /\ config.enable_dns64 # 0 /\ config.filter_a # 0

\* the servers of the loaded Config as the specification describes them: the
\* fallback defaults are IPv4 servers
ConfiguredServers ==
    IF ValidatedEntries(loaded_from) = <<>> THEN DocumentedDefaults ELSE Servers(config)
\* the first MAXNS configured servers of a family, in config order
FirstOfFamily(family) ==
    Take(SelectSeq(ConfiguredServers, LAMBDA e : e.family = family), MAXNS)
\* the nameserver slot of an IPv4 server entry
SlotOf(e) ==
    [sin_family |-> AF_INET, sin_port |-> htons(e.port), sin_addr |-> inet_pton4(e.addr)]

\* C16: after getaddrinfo's install step the first slots of the IPv4
\* nameserver list hold the first MAXNS IPv4 servers of Config in order, the
\* IPv6 descriptor list holds the first MAXNS IPv6 servers in order, and every
\* slot below the installed count was written by this call: it holds a
\* configured IPv4 server or the zeroed placeholder, nothing left by res_init.
C16_InstalledFromConfig ==
    \A t \in Callers :
        pc[t] = "gai_query" =>
            /\ res_state.nscount >= Len(FirstOfFamily(AF_INET))
            /\ \A k \in 1..Len(FirstOfFamily(AF_INET)) :
                  res_state.nsaddr_list[k - 1] = SlotOf(FirstOfFamily(AF_INET)[k])
            /\ res_state.nscount6 = Len(FirstOfFamily(AF_INET6))
            /\ \A k \in 1..Len(FirstOfFamily(AF_INET6)) :
                  /\ res_state.nsaddrs[k - 1] # NULL
                  /\ ns6_heap[res_state.nsaddrs[k - 1]].sin6_addr
                        = inet_pton6(FirstOfFamily(AF_INET6)[k].addr)
                  /\ ns6_heap[res_state.nsaddrs[k - 1]].sin6_port
                        = htons(FirstOfFamily(AF_INET6)[k].port)
            /\ \A k \in NsSlots :
                  k < res_state.nscount =>
                     \/ res_state.nsaddr_list[k] = ZeroSlot
                     \/ \E j \in 1..Len(FirstOfFamily(AF_INET)) :
                           res_state.nsaddr_list[k] = SlotOf(FirstOfFamily(AF_INET)[j])

StageIdle(t) ==
    /\ res'[t] = res[t]
    /\ mem'[t] = mem[t]
    /\ nomem'[t] = nomem[t]
    /\ filtered'[t] = filtered[t]
    /\ added'[t] = added[t]
    /\ filtered_a'[t] = filtered_a[t]

\* C18: with filterAAAA, dns64 and filterA all off a successful call hands
\* back the provider's chain, with nothing copied, freed or appended; and a
\* stage whose toggle is off leaves the chain it is given as it is.
C18_OffStagesDoNothing ==
    /\ [](\A t \in Callers :
            (Succeeded(t) /\ config.filter_aaaa = 0 /\ config.enable_dns64 = 0
                /\ config.filter_a = 0) =>
                /\ res[t] = provided[t].chain
                /\ mem[t] = NoFilter /\ nomem[t] = {}
                /\ filtered[t] = 0 /\ added[t] = 0 /\ filtered_a[t] = 0)
    /\ [][\A t \in Callers :
            /\ (pc[t] = "gai_aaaa" /\ config.filter_aaaa = 0) => StageIdle(t)
            /\ (pc[t] = "gai_dns64" /\ config.enable_dns64 = 0) => StageIdle(t)
            /\ (pc[t] = "gai_a" /\ config.filter_a = 0) => StageIdle(t)]_vars

\* a call has returned a mixed chain of three records with every toggle off
C18_Witness ==
    /\ Succeeded(1)
    /\ config.filter_aaaa = 0 /\ config.enable_dns64 = 0 /\ config.filter_a = 0
    /\ provided[1].chain = <<RecAAAA, RecA1, RecA2>>
    /\ res[1] = <<RecAAAA, RecA1, RecA2>>

\* C19: the count of the IPv4 nameserver list and the count of the IPv6
\* descriptor list never exceed MAXNS, in any state during or after an
\* install step.
C19_CountsWithinMAXNS ==
    /\ res_state.nscount <= MAXNS
    /\ res_state.nscount6 <= MAXNS

\* C20: every entry accepted into Config.servers has a port in 0..65535,
\* whatever text followed the colon of its token, so that htons of the stored
\* port is the stored port.
C20_PortsAreUint16 ==
    config_loaded = 1 =>
        \A i \in ServerSlots :
            i < config.server_count =>
                /\ config.dns_ports[i] \in 0..65535
                /\ htons(config.dns_ports[i]) = config.dns_ports[i]

\* the prefix without a trailing "::", every other character kept
WithoutTrailingGap(p) == IF EndsInGap(p) THEN SubSeq(p, 1, Len(p) - 2) ELSE p

\* C21: synthesize removes a "::" from the prefix only when it is the last
\* two characters: all other text of the prefix, a "::" followed by more
\* text included, is kept at the start of the synthesized address.
C21_OnlyTrailingGapRemoved ==
    synth_ret = 1 =>
        LET kept == WithoutTrailingGap(config.dns64_prefix) \o <<":", ":">>
        IN Take(ipv6_str, Len(kept)) = Take(kept, INET6_ADDRSTRLEN - 1)

\* C22: whenever getaddrinfo returns 0 for a non-null node, the chain handed
\* to the caller is non-empty, for every provider result and every setting
\* of filter_aaaa, enable_dns64 and filter_a.
C22_SuccessHasRecords ==
    \A t \in Callers :
        (pc[t] = "returned" /\ func[t] = "getaddrinfo" /\ node[t] /\ result[t] = 0)
            => res[t] # <<>>

\* every thread has made a call and returned from it
AllReturned == \A t \in Threads : pc[t] = "returned"

\* _res points at an IPv6 server descriptor that was already freed
Dangling(r) ==
    \E i \in NsSlots :
        /\ r.nsaddrs[i] # NULL
        /\ r.nsaddrs[i] \in 1..Len(ns6_heap)
        /\ ns6_heap[r.nsaddrs[i]].frees >= 1

\* the call of thread t saved a configuration no call had changed yet.  The
\* call that starts first always does; a later call does only if it starts
\* when no install is in effect, and what it saves is then the same
\* configuration, since no install step produces a member of AmbientStates.
SavedAmbient(t) == pc[t] # "idle" /\ original_state[t] \in AmbientStates

\* C23: for any interleaving of concurrent getaddrinfo/gethostbyname calls,
\* once all of them have returned the ambient resolver configuration equals
\* the one in place before the first call started, and it refers to no IPv6
\* server descriptor that a call has already freed.
C23_RestoredAfterConcurrentCalls ==
    AllReturned =>
        /\ \E t \in Threads : SavedAmbient(t) /\ res_state = original_state[t]
        /\ ~Dangling(res_state)

====
